---- MODULE Spec2Model ----
(***************************************************************************)
(* Model of the content-completeness checker, src/pipeline/check_status.py *)
(* (check_platform_structure and main), over a POSIX-like filesystem.      *)
(*                                                                         *)
(* A path is a tuple of components below the fixed root                    *)
(* /workspaces/AI-prompt/pipeline: <<"jenkins", "templates", "basic.yml">> *)
(* is /workspaces/AI-prompt/pipeline/jenkins/templates/basic.yml.  The     *)
(* root itself is taken to be a searchable directory.                      *)
(***************************************************************************)
EXTENDS Integers, Sequences, FiniteSets, TLC

VARIABLES
    fs,             \* the filesystem: path -> node, for the paths that exist
    interp,         \* the Python interpreter the process runs on
    caller,         \* "idle", "direct", "main", "done", "crashed"
    pc,             \* position inside check_platform_structure
    platform_key,   \* argument of the running check_platform_structure
    status,         \* the local dict `status` of check_platform_structure
    idx,            \* index in expected_files of the for loop at line 153
    exc,            \* exception in flight ("none" when there is none)
    results,        \* values a direct caller got back, in call order
    loop_keys,      \* the list sorted(PLATFORMS.keys()) main iterates
    mi,             \* number of platforms main has taken from loop_keys
    all_statuses,   \* main's list all_statuses
    out,            \* lines printed to standard output, in order
    summary,        \* main's locals total_files ... completion
    registry,       \* the module-level dict PLATFORMS, as the process holds it
    last_query,     \* the path of the latest exists() or stat() call
    workers,        \* the frames of checks run side by side, one per platform
    disk,           \* the tree under the generators' base_dir: path -> node
    stdout,         \* the encoding of the generators' standard output
    mega,           \* the ComprehensivePlatformGenerator object (None before it is built)
    calls,          \* the generate_file calls made so far, each with how it ended
    enterprise      \* the process running comprehensive_generator.py

\* the state of check_status.py and the state of the generator scripts
check_vars == << fs, interp, caller, pc, platform_key, status, idx, exc, results,
                 loop_keys, mi, all_statuses, out, summary, registry, last_query, workers >>
gen_vars == << disk, stdout, mega, calls, enterprise >>

vars == << check_vars, gen_vars >>

-----------------------------------------------------------------------------
(* Bounds of the model *)

\* file sizes range over 0..MaxSize
MaxSize == 2
\* number of direct calls of check_platform_structure in one behaviour
MaxCalls == 2
\* number of entries of a registry smaller than the PLATFORMS literal
MaxRegistry == 2
\* number of threads that each run check_platform_structure for one platform
NumWorkers == 2
\* number of expected paths another process creates and deletes meanwhile
MaxEnvPaths == 2
\* number of generate_file calls made on one generator object
MaxGenCalls == 2

-----------------------------------------------------------------------------
(* Program data *)

PLATFORMS ==
    << [key |-> "gitlab-ci", name |-> "GitLab CI/CD"],
       [key |-> "azure-pipelines", name |-> "Azure Pipelines"],
       [key |-> "aws-codepipeline", name |-> "AWS CodePipeline"],
       [key |-> "gcp-cloud-build", name |-> "GCP Cloud Build"],
       [key |-> "circleci", name |-> "CircleCI"],
       [key |-> "travis-ci", name |-> "Travis CI"],
       [key |-> "appveyor", name |-> "AppVeyor"],
       [key |-> "bitbucket-pipelines", name |-> "Bitbucket Pipelines"],
       [key |-> "buildkite", name |-> "Buildkite"],
       [key |-> "drone-ci", name |-> "Drone CI"],
       [key |-> "concourse-ci", name |-> "Concourse CI"],
       [key |-> "jenkins", name |-> "Jenkins"],
       [key |-> "teamcity", name |-> "TeamCity"],
       [key |-> "cloudbees", name |-> "CloudBees CI"],
       [key |-> "gocd", name |-> "GoCD"],
       [key |-> "tekton", name |-> "Tekton"],
       [key |-> "spinnaker", name |-> "Spinnaker"],
       [key |-> "harness", name |-> "Harness"],
       [key |-> "pulumi-automation", name |-> "Pulumi Automation"] >>

\* the keys but for the one inserted last
MutKeysButLast(d) == [n \in 1..(Len(d) - 1) |-> d[n].key]

\* the number of platforms the module docstring names ("all 20 CI/CD platforms")
DocstringPlatforms == 20

\* d.keys(), in insertion order
Keys(d) == [n \in 1..Len(d) |-> d[n].key]

\* the keys of the PLATFORMS literal
PlatformKeys == Keys(PLATFORMS)

\* PLATFORMS[k]["name"]
PlatformName(k) ==
    LET n == CHOOSE m \in 1..Len(registry) : registry[m].key = k
    IN  registry[n].name

\* PLATFORMS.pop(k) used for the lookup: the entry is taken out
MutRegistryPop(d, k) == SelectSeq(d, LAMBDA e : e.key # k)

\* PLATFORMS[k]["name"] only reads the dict
RegistryAfterRead(d, k) == d

\* an identifier that is not a key of PLATFORMS
Unregistered == "github-actions"

\* the characters (code points) of an identifier, as Python compares them
Codes(s) ==
    CASE s = "gitlab-ci" -> << 103, 105, 116, 108, 97, 98, 45, 99, 105 >>
      [] s = "azure-pipelines" -> << 97, 122, 117, 114, 101, 45, 112, 105, 112, 101, 108, 105, 110, 101, 115 >>
      [] s = "aws-codepipeline" -> << 97, 119, 115, 45, 99, 111, 100, 101, 112, 105, 112, 101, 108, 105, 110, 101 >>
      [] s = "gcp-cloud-build" -> << 103, 99, 112, 45, 99, 108, 111, 117, 100, 45, 98, 117, 105, 108, 100 >>
      [] s = "circleci" -> << 99, 105, 114, 99, 108, 101, 99, 105 >>
      [] s = "travis-ci" -> << 116, 114, 97, 118, 105, 115, 45, 99, 105 >>
      [] s = "appveyor" -> << 97, 112, 112, 118, 101, 121, 111, 114 >>
      [] s = "bitbucket-pipelines" -> << 98, 105, 116, 98, 117, 99, 107, 101, 116, 45, 112, 105, 112, 101, 108, 105, 110, 101, 115 >>
      [] s = "buildkite" -> << 98, 117, 105, 108, 100, 107, 105, 116, 101 >>
      [] s = "drone-ci" -> << 100, 114, 111, 110, 101, 45, 99, 105 >>
      [] s = "concourse-ci" -> << 99, 111, 110, 99, 111, 117, 114, 115, 101, 45, 99, 105 >>
      [] s = "jenkins" -> << 106, 101, 110, 107, 105, 110, 115 >>
      [] s = "teamcity" -> << 116, 101, 97, 109, 99, 105, 116, 121 >>
      [] s = "cloudbees" -> << 99, 108, 111, 117, 100, 98, 101, 101, 115 >>
      [] s = "gocd" -> << 103, 111, 99, 100 >>
      [] s = "tekton" -> << 116, 101, 107, 116, 111, 110 >>
      [] s = "spinnaker" -> << 115, 112, 105, 110, 110, 97, 107, 101, 114 >>
      [] s = "harness" -> << 104, 97, 114, 110, 101, 115, 115 >>
      [] s = "pulumi-automation" -> << 112, 117, 108, 117, 109, 105, 45, 97, 117, 116, 111, 109, 97, 116, 105, 111, 110 >>
      [] s = "github-actions" -> << 103, 105, 116, 104, 117, 98, 45, 97, 99, 116, 105, 111, 110, 115 >>

\* str.__lt__: lexicographic order on code points, a proper prefix is smaller
RECURSIVE LexLess(_, _)
LexLess(a, b) ==
    IF b = << >> THEN FALSE
    ELSE IF a = << >> THEN TRUE
    ELSE IF Head(a) # Head(b) THEN Head(a) < Head(b)
    ELSE LexLess(Tail(a), Tail(b))

StrLess(s, t) == LexLess(Codes(s), Codes(t))

\* the keys taken in the order of the dict
MutSortedIdentity(l) == l

\* sorted(keys): stable ascending sort; the item at place i is the one
\* with i - 1 items before it (smaller, or equal and earlier in l)
sorted(l) ==
    LET Before(m, j) == StrLess(l[m], l[j]) \/ (l[m] = l[j] /\ m < j)
        Rank(j) == Cardinality({m \in 1..Len(l) : Before(m, j)}) + 1
    IN  [i \in 1..Len(l) |-> l[CHOOSE j \in 1..Len(l) : Rank(j) = i]]

\* the list expected_files; a relative path is the tuple of its components
expected_files ==
    << << "README.md" >>,
       << "templates", "basic.yml" >>,
       << "templates", "advanced.yml" >>,
       << "examples", "java-spring-boot-example.md" >>,
       << "examples", "python-fastapi-example.md" >>,
       << "examples", "nodejs-express-example.md" >>,
       << "examples", "go-example.md" >>,
       << "docs", "getting-started.md" >>,
       << "docs", "advanced-configuration.md" >>,
       << "scripts", "setup.sh" >>,
       << "scripts", "validate.sh" >> >>

\* Path(f"/workspaces/AI-prompt/pipeline/{platform_key}")
PlatformDir(k) == << k >>

\* the relative path looked up as it stands, from the working directory
MutFullPathNoPlatform(k, file_path) == file_path

\* platform_dir / file_path
FullPath(k, file_path) == PlatformDir(k) \o file_path

-----------------------------------------------------------------------------
(* The filesystem *)

Absent == [type |-> "absent"]
File(n) == [type |-> "file", size |-> n]
\* search: whether the process may traverse the directory (x permission)
Dir(n, x) == [type |-> "dir", size |-> n, search |-> x]
\* a node whose inode cannot be read: stat() on it fails with EIO
Broken == [type |-> "ioerror"]

Lookup(f, path) == IF path \in DOMAIN f THEN f[path] ELSE Absent

\* os.stat(path): resolve every component, then report the last node
RECURSIVE Resolve(_, _, _)
Resolve(f, path, n) ==
    LET node == Lookup(f, SubSeq(path, 1, n))
    IN  IF node.type = "absent" THEN [errno |-> "ENOENT"]
        ELSE IF node.type = "ioerror" THEN [errno |-> "EIO"]
        ELSE IF n = Len(path) THEN [errno |-> "OK", st_size |-> node.size, st_type |-> node.type]
        ELSE IF node.type # "dir" THEN [errno |-> "ENOTDIR"]
        ELSE IF ~node.search THEN [errno |-> "EACCES"]
        ELSE Resolve(f, path, n + 1)

Stat(f, path) == Resolve(f, path, 1)

\* ENOENT left out of the ignored errors
MutIgnoredErrnosNoEnoent == {"ENOTDIR", "EBADF", "ELOOP"}

\* errors pathlib takes as "the path is not there" (pathlib._IGNORED_ERRNOS)
IgnoredErrnos == {"ENOENT", "ENOTDIR", "EBADF", "ELOOP"}

\* The source names no interpreter version, and Path.exists() differs
\* between versions: older Pythons ("py313") return False for the errors of
\* IgnoredErrnos and let every other OSError through; newer Pythons ("py314",
\* the change is documented for 3.14) return False for every OSError, as
\* os.path.exists() does.
Interpreters == {"py313", "py314"}

\* stat() used for the test, so that every error is let through
MutPathExistsStrict(f, path) ==
    LET r == Resolve(f, path, 1)
    IN  IF r.errno = "OK" THEN [raised |-> "none", value |-> TRUE]
        ELSE [raised |-> r.errno, value |-> FALSE]

\* Path.exists(): TRUE, FALSE, or the OSError it lets through
PathExists(f, path) ==
    LET r == Stat(f, path)
    IN  IF r.errno = "OK" THEN [raised |-> "none", value |-> TRUE]
        ELSE IF r.errno \in IgnoredErrnos \/ interp = "py314"
             THEN [raised |-> "none", value |-> FALSE]
        ELSE [raised |-> r.errno, value |-> FALSE]

\* the test done with open(path, "a"), which creates a missing file
MutTouch(f, path) ==
    IF /\ path \notin DOMAIN f
       /\ Len(path) > 1
       /\ Lookup(f, SubSeq(path, 1, Len(path) - 1)).type = "dir"
    THEN [q \in DOMAIN f \cup {path} |-> IF q = path THEN File(0) ELSE f[q]]
    ELSE f

\* path.parent.mkdir(parents=True, exist_ok=True) before the test, as the
\* generator scripts do before they write
MutMkdirParents(f, path) ==
    LET pre == {SubSeq(path, 1, n) : n \in 1..(Len(path) - 1)}
    IN  IF \A q \in pre : Lookup(f, q).type \in {"absent", "dir"}
        THEN [q \in DOMAIN f \cup pre |-> IF q \in DOMAIN f THEN f[q] ELSE Dir(0, TRUE)]
        ELSE f

\* exists() and stat() only query the filesystem: it is left as it was
FsAfterQuery(f, path) == f

-----------------------------------------------------------------------------
(* Filesystems the checker is started on *)

SubDirs == {"templates", "examples", "docs", "scripts"}
NumExpected == Len(expected_files)
AllKeys == {PlatformKeys[n] : n \in 1..Len(PlatformKeys)} \cup {Unregistered}

\* the tree below one platform directory: the directory node itself, the
\* nodes of the four subdirectories and of the expected paths
LeafPattern(cut, a, b) == [i \in 1..NumExpected |-> IF i <= cut THEN a ELSE b]
ParentOf(i) == SubSeq(expected_files[i], 1, Len(expected_files[i]) - 1)
SubsFor(leaf) ==
    [d \in SubDirs |->
        IF \E i \in 1..NumExpected : ParentOf(i) = << d >> /\ leaf[i] # Absent
        THEN Dir(MaxSize, TRUE) ELSE Absent]
Tree(pdir, leaf) == [pdir |-> pdir, sub |-> SubsFor(leaf), leaf |-> leaf]

NoTree == Tree(Absent, LeafPattern(0, Absent, Absent))
FullTree == Tree(Dir(MaxSize, TRUE), LeafPattern(NumExpected, File(MaxSize), Absent))

LeafKindsA ==
    {File(n) : n \in 0..MaxSize} \cup {Dir(0, TRUE), Dir(MaxSize, TRUE)}
LeafKindsB == {Absent, File(MaxSize)}

PatternTrees ==
    {Tree(Dir(MaxSize, TRUE), LeafPattern(cut, a, b)) :
        cut \in 0..NumExpected, a \in LeafKindsA, b \in LeafKindsB}

SpecialTrees ==
    LET full == LeafPattern(NumExpected, File(MaxSize), Absent)
        one  == LeafPattern(1, File(MaxSize), Absent)
    IN  { \* the platform directory is a regular file, or unreadable
          Tree(File(MaxSize), LeafPattern(0, Absent, Absent)),
          Tree(Broken, LeafPattern(0, Absent, Absent)),
          \* the platform directory may not be searched
          Tree(Dir(MaxSize, FALSE), full),
          \* templates is a regular file; scripts may not be searched
          [Tree(Dir(MaxSize, TRUE), one) EXCEPT !.sub["templates"] = File(MaxSize)],
          [Tree(Dir(MaxSize, TRUE), full) EXCEPT !.sub["scripts"] = Dir(MaxSize, FALSE)],
          \* unreadable nodes among the expected paths
          Tree(Dir(MaxSize, TRUE), LeafPattern(1, Broken, File(MaxSize))),
          Tree(Dir(MaxSize, TRUE), LeafPattern(5, File(0), Broken)),
          \* a file with content, two empty files, the rest absent
          Tree(Dir(MaxSize, TRUE),
               [i \in 1..NumExpected |->
                   IF i = 1 THEN File(MaxSize) ELSE IF i <= 3 THEN File(0) ELSE Absent]),
          \* every second expected path absent, from the first on
          Tree(Dir(MaxSize, TRUE),
               [i \in 1..NumExpected |-> IF i % 2 = 1 THEN Absent ELSE File(MaxSize)]),
          \* empty subdirectories, no file
          [Tree(Dir(MaxSize, TRUE), LeafPattern(0, Absent, Absent))
              EXCEPT !.sub = [d \in SubDirs |-> Dir(0, TRUE)]] }

Trees == {NoTree} \cup PatternTrees \cup SpecialTrees

\* the platform whose tree varies; the others share one background tree
VariedKey == "jenkins"
\* on a populated background only these trees of VariedKey are tried
FewTrees == {NoTree, FullTree} \cup SpecialTrees

\* the paths of tree t of platform k that hold a node
TreePaths(k, t) ==
    IF t.pdir = Absent THEN {}
    ELSE {<< k >>}
         \cup (IF t.pdir.type # "dir" THEN {}
               ELSE {<< k, d >> : d \in {e \in SubDirs : t.sub[e] # Absent}}
                    \cup {<< k >> \o expected_files[i] :
                            i \in {j \in 1..NumExpected :
                                     /\ t.leaf[j] # Absent
                                     /\ \/ ParentOf(j) = << >>
                                        \/ t.sub[ParentOf(j)[1]].type = "dir"}})

TreeNode(k, t, path) ==
    IF Len(path) = 1 THEN t.pdir
    ELSE IF Len(path) = 2 /\ path[2] \in SubDirs THEN t.sub[path[2]]
    ELSE t.leaf[CHOOSE i \in 1..NumExpected : << k >> \o expected_files[i] = path]

Materialize(layout) ==
    LET paths == UNION {TreePaths(k, layout[k]) : k \in AllKeys}
    IN  [p \in paths |-> TreeNode(p[1], layout[p[1]], p)]

Layout(t, bg) == [k \in AllKeys |-> IF k = VariedKey THEN t ELSE bg]

InitialFilesystems ==
    {Materialize(Layout(t, NoTree)) : t \in Trees}
    \cup {Materialize(Layout(t, FullTree)) : t \in FewTrees}

-----------------------------------------------------------------------------
(* Python values *)

\* a dict is the sequence of its items in insertion order
DictKeys(d) == [n \in 1..Len(d) |-> d[n][1]]
DictValues(d) == [n \in 1..Len(d) |-> d[n][2]]
DictHas(d, k) == \E n \in 1..Len(d) : d[n][1] = k
\* a new key put in front of the older ones
MutDictSetPrepend(d, k, v) ==
    IF DictHas(d, k)
    THEN [n \in 1..Len(d) |-> IF d[n][1] = k THEN << k, v >> ELSE d[n]]
    ELSE << << k, v >> >> \o d

\* d[k] = v: a new key is appended, an old key keeps its place
DictSet(d, k, v) ==
    IF DictHas(d, k)
    THEN [n \in 1..Len(d) |-> IF d[n][1] = k THEN << k, v >> ELSE d[n]]
    ELSE Append(d, << k, v >>)
DictGet(d, k) == d[CHOOSE n \in 1..Len(d) : d[n][1] = k][2]

RECURSIVE SelectSeq2(_, _)
\* [x for x in l if Test(x)] with Test given as a set of accepted items
SelectSeq2(l, ok) ==
    IF l = << >> THEN << >>
    ELSE IF Head(l) \in ok THEN << Head(l) >> \o SelectSeq2(Tail(l), ok)
    ELSE SelectSeq2(Tail(l), ok)

\* sum(1 for f in d.values() if f == s), len([f for f, s in d.items() if s == ...])
CountStatus(d, s) == Cardinality({n \in 1..Len(d) : d[n][2] = s})
\* [f for f, s in d.items() if s == "missing"]
KeysWithStatus(d, s) == DictKeys(SelectSeq2(d, {it \in {d[n] : n \in 1..Len(d)} : it[2] = s}))

RECURSIVE SumSeq(_)
SumSeq(l) == IF l = << >> THEN 0 ELSE Head(l) + SumSeq(Tail(l))

-----------------------------------------------------------------------------
(* check_platform_structure *)

NoStatus == [platform |-> "", directory_exists |-> FALSE, files |-> << >>]
NoSummary ==
    [printed |-> FALSE, total_files |-> 0, existing_files |-> 0,
     empty_files |-> 0, missing_files |-> 0, completion_tenths |-> 0]

\* directory_exists left at False whatever platform_dir.exists() gave
MutNewStatusNoDirectory(k, dir_exists) ==
    [platform |-> k, directory_exists |-> FALSE, files |-> << >>]

\* the dict built at lines 133-137
NewStatus(k, dir_exists) ==
    [platform |-> k, directory_exists |-> dir_exists, files |-> << >>]

\* size >= 0 in place of size > 0
MutClassifyGe(size) == IF size >= 0 THEN "exists" ELSE "empty"

\* "exists" if size > 0 else "empty"
Classify(size) == IF size > 0 THEN "exists" ELSE "empty"

\* a loop that stops one path early
MutAfterBodyEarly(i) == IF i + 1 >= Len(expected_files) THEN "return" ELSE "test"

\* the position after the loop body has run for expected_files[i]
AfterBody(i) == IF i + 1 > Len(expected_files) THEN "return" ELSE "test"

\* lines 131-151: evaluate platform_dir.exists() and build status
EnterCheck(k) ==
    LET e == PathExists(fs, PlatformDir(k))
    IN  /\ platform_key' = k
        /\ fs' = FsAfterQuery(fs, PlatformDir(k))
        /\ last_query' = PlatformDir(k)
        /\ IF e.raised # "none"
           THEN /\ exc' = e.raised
                /\ pc' = "raised"
                /\ status' = NoStatus
                /\ idx' = 0
           ELSE /\ exc' = "none"
                /\ pc' = "test"
                /\ status' = NewStatus(k, e.value)
                /\ idx' = 1

\* lines 153-155 and 158-159: full_path.exists(), and the else branch
ExistsTest ==
    /\ pc = "test"
    /\ LET file_path == expected_files[idx]
           full_path == FullPath(platform_key, file_path)
           e == PathExists(fs, full_path)
       IN  /\ fs' = FsAfterQuery(fs, full_path)
           /\ last_query' = full_path
           /\ IF e.raised # "none"
              THEN /\ exc' = e.raised
                   /\ pc' = "raised"
                   /\ UNCHANGED << status, idx >>
              ELSE IF e.value
              THEN /\ pc' = "stat"
                   /\ UNCHANGED << status, idx, exc >>
              ELSE /\ status' = [status EXCEPT !.files = DictSet(@, file_path, "missing")]
                   /\ idx' = idx + 1
                   /\ pc' = AfterBody(idx)
                   /\ UNCHANGED exc
    /\ UNCHANGED gen_vars
    /\ UNCHANGED << interp, caller, platform_key, results, loop_keys, mi, all_statuses, out, summary, registry, workers >>

\* lines 156-157: full_path.stat().st_size and the classification
StatSize ==
    /\ pc = "stat"
    /\ LET file_path == expected_files[idx]
           full_path == FullPath(platform_key, file_path)
           r == Stat(fs, full_path)
       IN  /\ fs' = FsAfterQuery(fs, full_path)
           /\ last_query' = full_path
           /\ IF r.errno # "OK"
              THEN /\ exc' = r.errno
                   /\ pc' = "raised"
                   /\ UNCHANGED << status, idx >>
              ELSE /\ status' = [status EXCEPT !.files = DictSet(@, file_path, Classify(r.st_size))]
                   /\ idx' = idx + 1
                   /\ pc' = AfterBody(idx)
                   /\ UNCHANGED exc
    /\ UNCHANGED gen_vars
    /\ UNCHANGED << interp, caller, platform_key, results, loop_keys, mi, all_statuses, out, summary, registry, workers >>

-----------------------------------------------------------------------------
(* A caller that imports the module and calls check_platform_structure *)

\* the identifiers a direct caller passes
DirectKeys == {VariedKey, Unregistered}

CallDirect(k) ==
    /\ caller = "idle"
    /\ Len(results) < MaxCalls
    /\ caller' = "direct"
    /\ EnterCheck(k)
    /\ UNCHANGED gen_vars
    /\ UNCHANGED << interp, results, loop_keys, mi, all_statuses, out, summary, registry, workers >>

\* line 161: return status
DirectReturn ==
    /\ caller = "direct"
    /\ pc = "return"
    /\ results' = Append(results, [kind |-> "report", platform |-> platform_key, report |-> status, errno |-> "none"])
    /\ caller' = "idle"
    /\ pc' = "idle"
    /\ UNCHANGED gen_vars
    /\ UNCHANGED << fs, interp, platform_key, status, idx, exc, loop_keys, mi, all_statuses, out, summary, registry, last_query, workers >>

\* the OSError leaves check_platform_structure; the caller catches it
DirectRaise ==
    /\ caller = "direct"
    /\ pc = "raised"
    /\ results' = Append(results, [kind |-> "raised", platform |-> platform_key, report |-> NoStatus, errno |-> exc])
    /\ caller' = "idle"
    /\ pc' = "idle"
    /\ exc' = "none"
    /\ UNCHANGED gen_vars
    /\ UNCHANGED << fs, interp, platform_key, status, idx, loop_keys, mi, all_statuses, out, summary, registry, last_query, workers >>

-----------------------------------------------------------------------------
(* main *)

\* print("=" * 80), print("-" * 80)
Rule(ch) == [kind |-> "rule", ch |-> ch, width |-> 80]
Text(t) == [kind |-> "text", text |-> t]

\* l[:n]
Slice(l, n) == SubSeq(l, 1, IF Len(l) < n THEN Len(l) ELSE n)

\* the suffix printed from 5 missing files on, not from 6
MutMissingListingGe(missing_files) ==
    IF missing_files # << >>
    THEN << [kind |-> "missing_header"] >>
         \o [n \in 1..Len(Slice(missing_files, 5)) |->
                [kind |-> "missing_item", path |-> Slice(missing_files, 5)[n]]]
         \o (IF Len(missing_files) >= 5
             THEN << [kind |-> "more", n |-> Len(missing_files) - 5] >>
             ELSE << >>)
    ELSE << >>

\* lines 185-191: the listing of the missing files of one platform
MissingListing(missing_files) ==
    IF missing_files # << >>
    THEN << [kind |-> "missing_header"] >>
         \o [n \in 1..Len(Slice(missing_files, 5)) |->
                [kind |-> "missing_item", path |-> Slice(missing_files, 5)[n]]]
         \o (IF Len(missing_files) > 5
             THEN << [kind |-> "more", n |-> Len(missing_files) - 5] >>
             ELSE << >>)
    ELSE << >>

\* lines 174-191: what main prints for the report st of platform k
PlatformSection(k, st) ==
    << [kind |-> "platform", name |-> PlatformName(k), key |-> k],
       Rule("-"),
       [kind |-> "counts",
        exists  |-> CountStatus(st.files, "exists"),
        empty   |-> CountStatus(st.files, "empty"),
        missing |-> CountStatus(st.files, "missing")] >>
    \o MissingListing(KeysWithStatus(st.files, "missing"))

\* 12 files per platform, the count another script of the repository uses
MutTotalFiles12 == Len(registry) * 12

\* len(PLATFORMS) * 11
TotalFiles == Len(registry) * 11

\* the sum taken over the report left in the loop variable only
MutSumStatusLastOnly(statuses, which) ==
    IF statuses = << >> THEN 0
    ELSE Len(KeysWithStatus(statuses[Len(statuses)].files, which))

\* sum(len([f for f, s in status["files"].items() if s == which]) for status in statuses)
SumStatus(statuses, which) ==
    SumSeq([n \in 1..Len(statuses) |-> Len(KeysWithStatus(statuses[n].files, which))])

\* (existing / total) * 100 printed with :.1f, in tenths of a percent: the
\* nearest tenth (for the totals met here, 209 and the multiples of 11 up to
\* 33, no quotient lies halfway between two tenths); a zero divisor raises
Percent(existing, total) ==
    IF total = 0
    THEN [raised |-> "ZeroDivisionError", tenths |-> 0]
    ELSE [raised |-> "none", tenths |-> (2 * 1000 * existing + total) \div (2 * total)]

\* the division done without the test of total_files
MutCompletionNoGuard(existing, total) == Percent(existing, total)

\* the percentage cut to a tenth, not rounded to the nearest
MutCompletionTruncated(existing, total) ==
    IF total > 0
    THEN [raised |-> "none", tenths |-> (1000 * existing) \div total]
    ELSE [raised |-> "none", tenths |-> 0]

\* the quotient taken the other way round: total_files / existing_files
MutCompletionSwapped(existing, total) ==
    IF total > 0 THEN Percent(total, existing) ELSE [raised |-> "none", tenths |-> 0]

\* line 211: (existing_files / total_files) * 100 if total_files > 0 else 0
CompletionTenths(existing, total) ==
    IF total > 0 THEN Percent(existing, total) ELSE [raised |-> "none", tenths |-> 0]

\* the listing made with status["files"].pop(f): the stored report, which
\* is the same dict, loses its missing entries
MutStatusPopMissing(st) ==
    [st EXCEPT !.files = SelectSeq2(@, {it \in {st.files[n] : n \in 1..Len(st.files)} :
                                          it[2] # "missing"})]

\* lines 174-191 only read status: the dict appended at line 172 stays as
\* check_platform_structure returned it
StatusAfterPrint(st) == st

\* lines 164-170: the header, all_statuses = [], the sorted key list
MainStart ==
    /\ caller = "idle"
    /\ results = << >>
    /\ caller' = "main"
    /\ out' = out \o << Rule("="), Text("CI/CD Platform Content Status Report"), Rule("=") >>
    /\ all_statuses' = << >>
    /\ loop_keys' = sorted(Keys(registry))
    /\ mi' = 0
    /\ UNCHANGED gen_vars
    /\ UNCHANGED << fs, interp, pc, platform_key, status, idx, exc, results, summary, registry, last_query, workers >>

\* lines 170-171: the next key, and the call of check_platform_structure
MainNext ==
    /\ caller = "main"
    /\ pc = "idle"
    /\ mi < Len(loop_keys)
    /\ mi' = mi + 1
    /\ EnterCheck(loop_keys[mi + 1])
    /\ UNCHANGED gen_vars
    /\ UNCHANGED << interp, caller, results, loop_keys, all_statuses, out, summary, registry, workers >>

\* lines 171-191: the report comes back, is stored and printed
MainReport ==
    /\ caller = "main"
    /\ pc = "return"
    /\ all_statuses' = Append(all_statuses, StatusAfterPrint(status))
    /\ out' = out \o PlatformSection(platform_key, status)
    /\ registry' = RegistryAfterRead(registry, platform_key)
    /\ pc' = "idle"
    /\ UNCHANGED gen_vars
    /\ UNCHANGED << fs, interp, caller, platform_key, status, idx, exc, results, loop_keys, mi, summary, last_query, workers >>

\* an OSError leaves check_platform_structure and main: the run ends there
MainAbort ==
    /\ caller = "main"
    /\ pc = "raised"
    /\ caller' = "crashed"
    /\ pc' = "idle"
    /\ UNCHANGED gen_vars
    /\ UNCHANGED << fs, interp, platform_key, status, idx, exc, results, loop_keys, mi,
                    all_statuses, out, summary, registry, last_query, workers >>

\* the totals taken from a second scan of the filesystem, not from the
\* reports that were printed
MutSummaryRescan(statuses) ==
    [n \in 1..Len(statuses) |->
        [statuses[n] EXCEPT !.files =
            [i \in 1..Len(@) |->
                LET full_path == FullPath(statuses[n].platform, @[i][1])
                IN  << @[i][1],
                       IF Stat(fs, full_path).errno # "OK" THEN "missing"
                       ELSE Classify(Stat(fs, full_path).st_size) >>]]]

\* lines 198-203 sum over all_statuses, the reports collected in the loop
SummarySource(statuses) == statuses

\* lines 193-214: the summary block; main returns all_statuses
MainSummary ==
    /\ caller = "main"
    /\ pc = "idle"
    /\ mi = Len(loop_keys)
    /\ LET total_files    == TotalFiles
           existing_files == SumStatus(SummarySource(all_statuses), "exists")
           empty_files    == SumStatus(SummarySource(all_statuses), "empty")
           missing_files  == SumStatus(SummarySource(all_statuses), "missing")
           completion     == CompletionTenths(existing_files, total_files)
           totals         == << Rule("="), Text("Summary"), Rule("="),
                                [kind |-> "total", n |-> total_files],
                                [kind |-> "existing", n |-> existing_files],
                                [kind |-> "empty", n |-> empty_files],
                                [kind |-> "missing", n |-> missing_files] >>
       IN  IF completion.raised # "none"
           THEN \* the exception of line 211 ends main after lines 193-208
                /\ out' = out \o totals
                /\ exc' = completion.raised
                /\ caller' = "crashed"
                /\ UNCHANGED summary
           ELSE /\ summary' = [printed |-> TRUE, total_files |-> total_files,
                               existing_files |-> existing_files,
                               empty_files |-> empty_files,
                               missing_files |-> missing_files,
                               completion_tenths |-> completion.tenths]
                /\ out' = out \o totals
                             \o << [kind |-> "completion", tenths |-> completion.tenths] >>
                /\ caller' = "done"
                /\ UNCHANGED exc
    /\ UNCHANGED gen_vars
    /\ UNCHANGED << fs, interp, pc, platform_key, status, idx, results, loop_keys, mi, all_statuses, registry, last_query, workers >>

-----------------------------------------------------------------------------
(* The specification: a process that runs main, or calls the check itself *)

\* the locals and the output before anything has run
Start ==
    /\ pc = "idle"
    /\ platform_key = ""
    /\ status = NoStatus
    /\ idx = 0
    /\ exc = "none"
    /\ results = << >>
    /\ loop_keys = << >>
    /\ mi = 0
    /\ all_statuses = << >>
    /\ out = << >>
    /\ summary = NoSummary
    /\ last_query = << >>

\* no generator script has run: nothing under base_dir, no generator object
GenIdle ==
    /\ disk = << >>
    /\ stdout = "utf-8"
    /\ mega = [built |-> FALSE, files_created |-> 0, total_lines |-> 0]
    /\ calls = << >>
    /\ enterprise = [pc |-> "idle", exc |-> "none", before |-> << >>]

Init ==
    /\ fs \in InitialFilesystems
    /\ interp \in Interpreters
    /\ caller = "idle"
    /\ registry = PLATFORMS
    /\ workers = << >>
    /\ Start
    /\ GenIdle

Next ==
    \/ \E k \in DirectKeys : CallDirect(k)
    \/ ExistsTest
    \/ StatSize
    \/ DirectReturn
    \/ DirectRaise
    \/ MainStart
    \/ MainNext
    \/ MainReport
    \/ MainAbort
    \/ MainSummary

Spec == Init /\ [][Next]_vars

-----------------------------------------------------------------------------
(* The script run as a program: on the registry of the source, and on     *)
(* registries with fewer entries (PLATFORMS is a module-level dict that an *)
(* importer, or an edit of the literal, can make smaller)                  *)

\* the keys such a registry is made of
CandidateKeys == {"gitlab-ci", "azure-pipelines", VariedKey}

SmallRegistries ==
    {SelectSeq(PLATFORMS, LAMBDA e : e.key \in S) :
        S \in {T \in SUBSET CandidateKeys : Cardinality(T) <= MaxRegistry}}

Registries == {PLATFORMS} \cup SmallRegistries

InitMain ==
    /\ fs \in InitialFilesystems
    /\ interp \in Interpreters
    /\ caller = "idle"
    /\ registry \in Registries
    /\ workers = << >>
    /\ Start
    /\ GenIdle

NextMain ==
    \/ ExistsTest
    \/ StatSize
    \/ MainStart
    \/ MainNext
    \/ MainReport
    \/ MainAbort
    \/ MainSummary

SpecMain == InitMain /\ [][NextMain]_vars

-----------------------------------------------------------------------------
(* check_platform_structure called from several threads, one per platform, *)
(* each call with its own frame (platform_dir, status, expected_files and   *)
(* the loop position are locals); the sequential main runs afterwards      *)

\* the platforms given to workers, in the order they are taken
WorkerOrder == << VariedKey, "gitlab-ci", "azure-pipelines" >>
WorkerKeys ==
    {WorkerOrder[n] : n \in {m \in 1..Len(WorkerOrder) : m <= NumWorkers}}

\* the frame of a call that has not started
FrameStart ==
    [pc |-> "start", status |-> NoStatus, idx |-> 0, exc |-> "none", query |-> << >>]

\* lines 131-151 in the frame of a call for k
FrameEnter(k) ==
    LET e == PathExists(fs, PlatformDir(k))
    IN  IF e.raised # "none"
        THEN [pc |-> "raised", status |-> NoStatus, idx |-> 0, exc |-> e.raised,
              query |-> PlatformDir(k)]
        ELSE [pc |-> "test", status |-> NewStatus(k, e.value), idx |-> 1,
              exc |-> "none", query |-> PlatformDir(k)]

\* lines 153-155 and 158-159 in the frame fr of a call for k
FrameExistsTest(fr, k) ==
    LET file_path == expected_files[fr.idx]
        full_path == FullPath(k, file_path)
        e == PathExists(fs, full_path)
    IN  IF e.raised # "none"
        THEN [fr EXCEPT !.pc = "raised", !.exc = e.raised, !.query = full_path]
        ELSE IF e.value
        THEN [fr EXCEPT !.pc = "stat", !.query = full_path]
        ELSE [fr EXCEPT !.status.files = DictSet(@, file_path, "missing"),
                        !.idx = @ + 1, !.pc = AfterBody(fr.idx), !.query = full_path]

\* lines 156-157 in the frame fr of a call for k
FrameStatSize(fr, k) ==
    LET file_path == expected_files[fr.idx]
        full_path == FullPath(k, file_path)
        r == Stat(fs, full_path)
    IN  IF r.errno # "OK"
        THEN [fr EXCEPT !.pc = "raised", !.exc = r.errno, !.query = full_path]
        ELSE [fr EXCEPT !.status.files = DictSet(@, file_path, Classify(r.st_size)),
                        !.idx = @ + 1, !.pc = AfterBody(fr.idx), !.query = full_path]

\* status["files"] kept in one module-level dict that every call writes
MutStoreShared(ws, w, fr) ==
    [u \in DOMAIN ws |->
        IF u = w THEN fr ELSE [ws[u] EXCEPT !.status.files = fr.status.files]]

\* the frame of a call is its own: a step of worker w changes that frame only
StoreFrame(ws, w, fr) == [ws EXCEPT ![w] = fr]

WorkerEnter(w) ==
    /\ caller = "workers"
    /\ workers[w].pc = "start"
    /\ workers' = StoreFrame(workers, w, FrameEnter(w))
    /\ fs' = FsAfterQuery(fs, PlatformDir(w))
    /\ UNCHANGED gen_vars
    /\ UNCHANGED << interp, caller, pc, platform_key, status, idx, exc, results, loop_keys,
                    mi, all_statuses, out, summary, registry, last_query >>

WorkerExistsTest(w) ==
    /\ caller = "workers"
    /\ workers[w].pc = "test"
    /\ workers' = StoreFrame(workers, w, FrameExistsTest(workers[w], w))
    /\ fs' = FsAfterQuery(fs, FullPath(w, expected_files[workers[w].idx]))
    /\ UNCHANGED gen_vars
    /\ UNCHANGED << interp, caller, pc, platform_key, status, idx, exc, results, loop_keys,
                    mi, all_statuses, out, summary, registry, last_query >>

WorkerStatSize(w) ==
    /\ caller = "workers"
    /\ workers[w].pc = "stat"
    /\ workers' = StoreFrame(workers, w, FrameStatSize(workers[w], w))
    /\ fs' = FsAfterQuery(fs, FullPath(w, expected_files[workers[w].idx]))
    /\ UNCHANGED gen_vars
    /\ UNCHANGED << interp, caller, pc, platform_key, status, idx, exc, results, loop_keys,
                    mi, all_statuses, out, summary, registry, last_query >>

\* every call has returned or raised: the threads are joined
WorkersJoin ==
    /\ caller = "workers"
    /\ \A w \in DOMAIN workers : workers[w].pc \in {"return", "raised"}
    /\ caller' = "idle"
    /\ UNCHANGED gen_vars
    /\ UNCHANGED << fs, interp, pc, platform_key, status, idx, exc, results, loop_keys,
                    mi, all_statuses, out, summary, registry, last_query, workers >>

\* the trees of VariedKey beside populated platform directories, and its
\* populated tree beside absent ones
WorkerFilesystems ==
    {Materialize(Layout(t, FullTree)) : t \in FewTrees}
    \cup {Materialize(Layout(FullTree, NoTree))}

InitWorkers ==
    /\ fs \in WorkerFilesystems
    /\ interp \in Interpreters
    /\ caller = "workers"
    /\ registry = SelectSeq(PLATFORMS, LAMBDA e : e.key \in WorkerKeys)
    /\ workers = [w \in WorkerKeys |-> FrameStart]
    /\ Start
    /\ GenIdle

NextWorkers ==
    \/ \E w \in WorkerKeys : WorkerEnter(w)
    \/ \E w \in WorkerKeys : WorkerExistsTest(w)
    \/ \E w \in WorkerKeys : WorkerStatSize(w)
    \/ WorkersJoin
    \/ MainStart
    \/ MainNext
    \/ ExistsTest
    \/ StatSize
    \/ MainReport
    \/ MainAbort
    \/ MainSummary

SpecWorkers == InitWorkers /\ [][NextWorkers]_vars

-----------------------------------------------------------------------------
(* The script run with no arguments: main on the registry of the source   *)
(* and on the smaller registries; the interpreter runs the process on      *)
(* until main has ended                                                    *)

\* the trees of VariedKey among empty platform directories, and the fully
\* populated layout
RunFilesystems ==
    {Materialize(Layout(t, NoTree)) : t \in FewTrees}
    \cup {Materialize(Layout(FullTree, FullTree))}

\* for the registry of the source: nothing on disk, every expected file
\* with content, and an unreadable platform directory
SourceRunFilesystems ==
    { Materialize(Layout(NoTree, NoTree)),
      Materialize(Layout(FullTree, FullTree)),
      Materialize(Layout(Tree(Broken, LeafPattern(0, Absent, Absent)), NoTree)) }

RunInputs ==
    ({PLATFORMS} \X SourceRunFilesystems) \cup (SmallRegistries \X RunFilesystems)

InitRun ==
    /\ \E in \in RunInputs : registry = in[1] /\ fs = in[2]
    /\ interp \in Interpreters
    /\ caller = "idle"
    /\ workers = << >>
    /\ Start
    /\ GenIdle

SpecRun == InitRun /\ [][NextMain]_vars /\ WF_vars(NextMain)

-----------------------------------------------------------------------------
(* main while another process creates, rewrites and deletes expected files *)
(* (the generator scripts of the repository write these very paths)        *)

\* the paths the other process works on: expected paths of VariedKey
EnvPaths ==
    {<< VariedKey >> \o expected_files[i] :
        i \in {j \in 1..Len(expected_files) : j <= MaxEnvPaths}}

\* os.unlink(path) by the other process
EnvUnlink(path) ==
    /\ Lookup(fs, path).type = "file"
    /\ fs' = [q \in DOMAIN fs \ {path} |-> fs[q]]
    /\ UNCHANGED gen_vars
    /\ UNCHANGED << interp, caller, pc, platform_key, status, idx, exc, results, loop_keys,
                    mi, all_statuses, out, summary, registry, last_query, workers >>

\* open(path, "w") and write of n bytes by the other process
EnvWrite(path, n) ==
    /\ Lookup(fs, SubSeq(path, 1, Len(path) - 1)).type = "dir"
    /\ Lookup(fs, path).type \in {"absent", "file"}
    /\ Lookup(fs, path) # File(n)
    /\ fs' = [q \in DOMAIN fs \cup {path} |-> IF q = path THEN File(n) ELSE fs[q]]
    /\ UNCHANGED gen_vars
    /\ UNCHANGED << interp, caller, pc, platform_key, status, idx, exc, results, loop_keys,
                    mi, all_statuses, out, summary, registry, last_query, workers >>

\* every expected file of VariedKey with content, or its first two empty
\* and the others absent; the other platform directories absent
EnvFilesystems ==
    { Materialize(Layout(FullTree, NoTree)),
      Materialize(Layout(Tree(Dir(MaxSize, TRUE), LeafPattern(2, File(0), Absent)), NoTree)) }

InitEnv ==
    /\ fs \in EnvFilesystems
    /\ interp \in Interpreters
    /\ caller = "idle"
    /\ registry \in {r \in SmallRegistries : \E n \in 1..Len(r) : r[n].key = VariedKey}
    /\ workers = << >>
    /\ Start
    /\ GenIdle

NextEnv ==
    \/ NextMain
    \/ \E path \in EnvPaths : EnvUnlink(path)
    \/ \E path \in EnvPaths, n \in {0, MaxSize} : EnvWrite(path, n)

SpecEnv == InitEnv /\ [][NextEnv]_vars

-----------------------------------------------------------------------------
(* The generator scripts: the tree under base_dir                          *)
(* (/home/runner/work/AI-prompt/AI-prompt/pipeline in both scripts); a     *)
(* path is the tuple of its components below base_dir                      *)

NoNode == [type |-> "absent"]
\* writable: the process may create entries in the directory
DirNode(w) == [type |-> "dir", writable |-> w]
\* owned: the process owns the file (chmod is allowed); writable: it may
\* open the file for writing
FileNode(content, mode, owned, writable) ==
    [type |-> "file", content |-> content, mode |-> mode,
     owned |-> owned, writable |-> writable]

\* base_dir itself is taken to exist and to be writable
At(d, path) ==
    IF path = << >> THEN DirNode(TRUE)
    ELSE IF path \in DOMAIN d THEN d[path] ELSE NoNode

Put(d, path, node) == [q \in DOMAIN d \cup {path} |-> IF q = path THEN node ELSE d[q]]

\* 0o755
ExecutableMode == 493
\* the mode of a file that open(..., 'w') creates: 0o666 without the umask 0o022
CreateMode == 420

\* Path.mkdir(parents=True, exist_ok=True) for path, from its n-th component
\* on: a directory on the way is kept, a missing one is created in its
\* parent, a file on the way makes os.mkdir fail
RECURSIVE Mkdir(_, _, _)
Mkdir(d, path, n) ==
    IF n > Len(path) THEN [raised |-> "none", disk |-> d]
    ELSE LET here   == SubSeq(path, 1, n)
             node   == At(d, here)
             parent == At(d, SubSeq(path, 1, n - 1))
         IN  IF node.type = "dir" THEN Mkdir(d, path, n + 1)
             ELSE IF node.type = "file"
                  THEN [raised |-> IF n = Len(path) THEN "FileExistsError"
                                   ELSE "NotADirectoryError",
                        disk |-> d]
             ELSE IF ~parent.writable THEN [raised |-> "PermissionError", disk |-> d]
             ELSE Mkdir(Put(d, here, DirNode(TRUE)), path, n + 1)

\* with open(path, 'w') as f: f.write(content), the parent being a directory
WriteFile(d, path, content) ==
    LET node   == At(d, path)
        parent == At(d, SubSeq(path, 1, Len(path) - 1))
    IN  IF node.type = "dir" THEN [raised |-> "IsADirectoryError", disk |-> d]
        ELSE IF node.type = "file"
             THEN IF node.writable
                  THEN [raised |-> "none",
                        disk |-> Put(d, path, [node EXCEPT !.content = content])]
                  ELSE [raised |-> "PermissionError", disk |-> d]
        ELSE IF parent.writable
             THEN [raised |-> "none",
                   disk |-> Put(d, path, FileNode(content, CreateMode, TRUE, TRUE))]
        ELSE [raised |-> "PermissionError", disk |-> d]

\* Path.chmod(mode): allowed to the owner of the file
Chmod(d, path, mode) ==
    IF At(d, path).owned
    THEN [raised |-> "none", disk |-> Put(d, path, [At(d, path) EXCEPT !.mode = mode])]
    ELSE [raised |-> "PermissionError", disk |-> d]

-----------------------------------------------------------------------------
(* mega_generator.py: ComprehensivePlatformGenerator                       *)

\* the characters of the last component of a filepath
Chars(name) ==
    CASE name = "README.md" -> << "R", "E", "A", "D", "M", "E", ".", "m", "d" >>
      [] name = "setup.sh" -> << "s", "e", "t", "u", "p", ".", "s", "h" >>
      [] name = "setup.sh.bak" -> << "s", "e", "t", "u", "p", ".", "s", "h", ".", "b", "a", "k" >>

\* '.sh' in filepath
MutEndsWithAnywhere(text, suffix) ==
    \E n \in 1..Len(text) :
        /\ n + Len(suffix) - 1 <= Len(text)
        /\ SubSeq(text, n, n + Len(suffix) - 1) = suffix

\* str.endswith
EndsWith(text, suffix) ==
    /\ Len(text) >= Len(suffix)
    /\ SubSeq(text, Len(text) - Len(suffix) + 1, Len(text)) = suffix

\* content.count('\n')
RECURSIVE MutSplitNoLastPiece(_)
MutSplitNoLastPiece(content) ==
    IF content = << >> THEN << >>
    ELSE IF Head(content) = "\n" THEN << << >> >> \o MutSplitNoLastPiece(Tail(content))
    ELSE MutSplitNoLastPiece(Tail(content))

\* content.split('\n'): the pieces between the newline characters
RECURSIVE Split(_)
Split(content) ==
    IF \A n \in 1..Len(content) : content[n] # "\n" THEN << content >>
    ELSE LET first == CHOOSE n \in 1..Len(content) :
                         /\ content[n] = "\n"
                         /\ \A m \in 1..(n - 1) : content[m] # "\n"
         IN  << SubSeq(content, 1, first - 1) >>
             \o Split(SubSeq(content, first + 1, Len(content)))

\* the counters raised at the head of the method, whatever follows
MutCountsAlways(ended) == TRUE

\* lines 52-54 are reached when mkdir, open and chmod have not raised
Counts(ended) == ended \in {"print", "returned"}

\* print of a line with the check mark: the encodings of standard output
\* that have the character U+2713, and those that have not
Encodings == {"utf-8", "cp1252"}
PrintCheckMark(encoding) == IF encoding = "utf-8" THEN "none" ELSE "UnicodeEncodeError"

\* lines 35-38: __init__
BuildGenerator ==
    /\ ~mega.built
    /\ mega' = [built |-> TRUE, files_created |-> 0, total_lines |-> 0]
    /\ UNCHANGED << disk, stdout, calls, enterprise >>
    /\ UNCHANGED check_vars

\* lines 40-56: generate_file, to its return or to the exception that ends it
generate_file(key, filepath, content) ==
    /\ mega.built
    /\ Len(calls) < MaxGenCalls
    /\ LET full_path == << key >> \o filepath
           made      == Mkdir(disk, SubSeq(full_path, 1, Len(full_path) - 1), 1)
           written   == IF made.raised # "none" THEN made
                        ELSE WriteFile(made.disk, full_path, content)
           moded     == IF written.raised # "none" THEN written
                        ELSE IF EndsWith(Chars(filepath[Len(filepath)]), << ".", "s", "h" >>)
                             THEN Chmod(written.disk, full_path, ExecutableMode)
                        ELSE written
           lines     == Len(Split(content))
           ended     == IF made.raised # "none" THEN "mkdir"
                        ELSE IF written.raised # "none" THEN "open"
                        ELSE IF moded.raised # "none" THEN "chmod"
                        ELSE IF PrintCheckMark(stdout) # "none" THEN "print"
                        ELSE "returned"
           raised    == IF ended = "print" THEN PrintCheckMark(stdout) ELSE moded.raised
       IN  /\ disk' = moded.disk
           /\ mega' = IF Counts(ended)
                      THEN [mega EXCEPT !.files_created = @ + 1, !.total_lines = @ + lines]
                      ELSE mega
           /\ calls' = Append(calls, [platform_key |-> key, filepath |-> filepath,
                                      content |-> content, ended |-> ended,
                                      raised |-> raised, before |-> disk])
    /\ UNCHANGED << stdout, enterprise >>
    /\ UNCHANGED check_vars

-----------------------------------------------------------------------------
(* comprehensive_generator.py: EnterpriseContentGenerator and main         *)

\* the keys of EnterpriseContentGenerator.PLATFORMS, in the order of the dict
EnterprisePlatforms ==
    << "gitlab-ci", "azure-pipelines", "aws-codepipeline", "gcp-cloud-build",
       "circleci", "travis-ci", "appveyor", "bitbucket-pipelines", "buildkite",
       "drone-ci", "concourse-ci", "jenkins", "teamcity", "cloudbees", "gocd",
       "tekton", "spinnaker", "harness", "pulumi-automation" >>

\* main's list platforms_to_generate
platforms_to_generate ==
    << "gitlab-ci", "azure-pipelines", "aws-codepipeline", "gcp-cloud-build",
       "circleci", "travis-ci", "appveyor", "bitbucket-pipelines",
       "buildkite", "drone-ci", "concourse-ci",
       "jenkins", "teamcity", "cloudbees", "gocd",
       "tekton", "spinnaker", "harness", "pulumi-automation" >>

\* the replacement fields of the f-string of generate_readme that matter to
\* the compiler: what stands between the braces is an expression, or not
ReadmeFields ==
    << [field |-> "name", expression |-> TRUE],
       [field |-> "self.platform_key", expression |-> TRUE],
       [field |-> "import datetime; datetime.datetime.now().strftime('%Y-%m-%d')",
        expression |-> FALSE] >>

\* the compiler takes the file when every replacement field is an expression
Compiles(fields) == \A n \in 1..Len(fields) : fields[n].expression

\* the README text generate_readme returns, cut down to one line
ReadmeContent(k) == << "a" >>

\* lines 291-302: create_directories, the five mkdir calls in order
RECURSIVE MkdirAll(_, _, _)
MkdirAll(d, dirs, n) ==
    IF n > Len(dirs) THEN [raised |-> "none", disk |-> d]
    ELSE LET made == Mkdir(d, dirs[n], 1)
         IN  IF made.raised # "none" THEN made ELSE MkdirAll(made.disk, dirs, n + 1)
create_directories(d, k) ==
    MkdirAll(d, << << k >>, << k, "templates" >>, << k, "examples" >>,
                   << k, "docs" >>, << k, "scripts" >> >>, 1)

\* lines 1602-1608: save_file
save_file(d, k, filename, content) ==
    LET made == Mkdir(d, << k >>, 1)
    IN  IF made.raised # "none" THEN made
        ELSE WriteFile(made.disk, << k, filename >>, content)

\* lines 1610-1626: generate_all_files
generate_all_files(d, k) ==
    LET dirs == create_directories(d, k)
    IN  IF dirs.raised # "none" THEN dirs
        ELSE save_file(dirs.disk, k, "README.md", ReadmeContent(k))

\* lines 1642-1644: the loop of main over keys, from the n-th on; the
\* constructor looks the key up in PLATFORMS
RECURSIVE GenerateFrom(_, _, _)
GenerateFrom(d, keys, n) ==
    IF n > Len(keys) THEN [raised |-> "none", disk |-> d]
    ELSE IF \A m \in 1..Len(EnterprisePlatforms) : EnterprisePlatforms[m] # keys[n]
         THEN [raised |-> "KeyError", disk |-> d]
    ELSE LET done == generate_all_files(d, keys[n])
         IN  IF done.raised # "none" THEN done ELSE GenerateFrom(done.disk, keys, n + 1)

\* python comprehensive_generator.py: the file is compiled, then main runs
RunEnterprise ==
    /\ enterprise.pc = "idle"
    /\ IF ~Compiles(ReadmeFields)
       THEN /\ enterprise' = [pc |-> "crashed", exc |-> "SyntaxError", before |-> disk]
            /\ UNCHANGED disk
       ELSE LET ran == GenerateFrom(disk, platforms_to_generate, 1)
            IN  /\ enterprise' = [pc |-> IF ran.raised = "none" THEN "done" ELSE "crashed",
                                  exc |-> ran.raised, before |-> disk]
                /\ disk' = ran.disk
    /\ UNCHANGED << stdout, mega, calls >>
    /\ UNCHANGED check_vars

-----------------------------------------------------------------------------
(* The two generator scripts on one tree                                   *)

\* the platform keys, the filepaths and the contents handed to generate_file
GenKey == "gitlab-ci"
OtherGenKey == "azure-pipelines"
GenTargets ==
    ({GenKey} \X {<< "README.md" >>, << "scripts", "setup.sh" >>,
                  << "scripts", "setup.sh.bak" >>})
    \cup {<< OtherGenKey, << "README.md" >> >>}
Contents ==
    { << >>, << "a" >>, << "a", "\n" >>, << "a", "\n", "a" >>, << "\n", "\n" >> }

\* the trees the scripts start on
\* nothing yet
EmptyTree == << >>
\* an earlier run has left its files
PopulatedTree ==
    LET old == << "a", "\n", "a" >>
    IN  (<< GenKey >> :> DirNode(TRUE))
           @@ (<< GenKey, "scripts" >> :> DirNode(TRUE))
           @@ (<< GenKey, "scripts", "setup.sh" >> :> FileNode(old, CreateMode, TRUE, TRUE))
           @@ (<< GenKey, "README.md" >> :> FileNode(old, ExecutableMode, TRUE, TRUE))
GenDisks ==
    LET old == << "a", "\n", "a" >>
    IN  { EmptyTree,
          PopulatedTree,
          \* a file where a directory is wanted, a directory where a file is
          (<< GenKey >> :> DirNode(TRUE))
             @@ (<< GenKey, "scripts" >> :> FileNode(old, CreateMode, TRUE, TRUE))
             @@ (<< GenKey, "README.md" >> :> DirNode(TRUE)),
          \* a platform directory and a file the process may not write
          (<< GenKey >> :> DirNode(FALSE))
             @@ (<< GenKey, "README.md" >> :> FileNode(old, CreateMode, FALSE, FALSE)),
          \* a script of another user that the process may write
          (<< GenKey >> :> DirNode(TRUE))
             @@ (<< GenKey, "scripts" >> :> DirNode(TRUE))
             @@ (<< GenKey, "scripts", "setup.sh" >> :> FileNode(old, CreateMode, FALSE, TRUE)) }

InitGen ==
    /\ disk \in GenDisks
    /\ stdout \in Encodings
    /\ mega = [built |-> FALSE, files_created |-> 0, total_lines |-> 0]
    /\ calls = << >>
    /\ enterprise = [pc |-> "idle", exc |-> "none", before |-> << >>]
    /\ fs = << >>
    /\ interp = "py313"
    /\ caller = "idle"
    /\ registry = PLATFORMS
    /\ workers = << >>
    /\ Start

NextGen ==
    \/ BuildGenerator
    \/ \E t \in GenTargets, content \in Contents : generate_file(t[1], t[2], content)
    \/ RunEnterprise

SpecGen == InitGen /\ [][NextGen]_vars

-----------------------------------------------------------------------------
(* Vocabulary of the properties *)

Statuses == {"exists", "empty", "missing"}

\* the reports check_platform_structure has returned so far
DirectReports ==
    {results[n].report : n \in {m \in 1..Len(results) : results[m].kind = "report"}}
\* check_platform_structure is at its return statement: status is the
\* report it returns
Returning == pc = "return"

\* the node at the i-th expected path of platform k
NodeAt(k, i) == Lookup(fs, FullPath(k, expected_files[i]))

\* looking at path meets a permission or I/O error: an unreadable node on
\* the way, or a directory on the way that may not be searched
Blocked(path) ==
    \E n \in 1..Len(path) :
        LET node == Lookup(fs, SubSeq(path, 1, n))
        IN  \/ node.type = "ioerror"
            \/ n < Len(path) /\ node.type = "dir" /\ ~node.search
BlockedAt(k, i) == Blocked(FullPath(k, expected_files[i]))

\* the status report r gives the i-th expected path
StatusOf(r, i) == DictGet(r.files, expected_files[i])

-----------------------------------------------------------------------------
(* Properties *)

\* C1: every report check_platform_structure returns, whatever the platform
\* identifier, has exactly one entry for each expected path (none omitted,
\* none twice) and every entry is exists, empty or missing.
C1_OneEntryPerExpectedPath ==
    Returning =>
        /\ status.platform = platform_key
        /\ Len(status.files) = NumExpected
        /\ \A i \in 1..NumExpected :
              Cardinality({n \in 1..Len(status.files) :
                              status.files[n][1] = expected_files[i]}) = 1
        /\ \A n \in 1..Len(status.files) : status.files[n][2] \in Statuses

\* reports came back for an unregistered identifier without a directory and
\* for a registered one with a directory
C1_Witness ==
    /\ \E r \in DirectReports : r.platform = Unregistered /\ ~r.directory_exists
    /\ \E r \in DirectReports : r.platform = VariedKey /\ r.directory_exists

\* C2: where looking at the path meets no error, a returned report says
\* exists for a file of size > 0, empty for a file of size 0 and missing
\* when nothing is at the path.
C2_Classification ==
    Returning =>
        \A i \in 1..NumExpected :
            (DictHas(status.files, expected_files[i]) /\ ~BlockedAt(platform_key, i)) =>
                LET node == NodeAt(platform_key, i)
                IN  /\ (node.type = "file" /\ node.size > 0) => StatusOf(status, i) = "exists"
                    /\ (node.type = "file" /\ node.size = 0) => StatusOf(status, i) = "empty"
                    /\ node.type = "absent" => StatusOf(status, i) = "missing"

\* one report holds the three cases
C2_Witness ==
    \E r \in DirectReports : \E i, j, l \in 1..NumExpected :
        /\ Len(r.files) = NumExpected
        /\ NodeAt(r.platform, i).type = "file" /\ NodeAt(r.platform, i).size > 0
        /\ StatusOf(r, i) = "exists"
        /\ NodeAt(r.platform, j).type = "file" /\ NodeAt(r.platform, j).size = 0
        /\ StatusOf(r, j) = "empty"
        /\ NodeAt(r.platform, l).type = "absent" /\ StatusOf(r, l) = "missing"

\* C3: when main has printed the summary, the three totals add up to
\* total_files.
C3_TotalsAddUp ==
    summary.printed =>
        summary.existing_files + summary.empty_files + summary.missing_files
            = summary.total_files

\* a summary in which none of the three totals is zero
C3_Witness ==
    /\ summary.printed
    /\ summary.existing_files > 0
    /\ summary.empty_files > 0
    /\ summary.missing_files > 0

\* C4: a returned report says exists only for a regular file of size > 0;
\* a directory at an expected path is not reported as exists.
C4_ExistsOnlyRegularFile ==
    Returning =>
        \A i \in 1..NumExpected :
            (DictHas(status.files, expected_files[i]) /\ StatusOf(status, i) = "exists") =>
                /\ NodeAt(platform_key, i).type = "file"
                /\ NodeAt(platform_key, i).size > 0

\* C5: for a platform whose directory does not exist the check does not
\* raise, and the report it returns has directory_exists false and every
\* expected path missing.
C5_MissingDirectory ==
    (platform_key # "" /\ Lookup(fs, PlatformDir(platform_key)).type = "absent") =>
        /\ pc # "raised"
        /\ Returning =>
              /\ ~status.directory_exists
              /\ Len(status.files) = NumExpected
              /\ \A i \in 1..NumExpected : StatusOf(status, i) = "missing"

\* main gets the report of a platform without a directory
C5_Witness ==
    /\ caller = "main"
    /\ Returning
    /\ Lookup(fs, PlatformDir(platform_key)).type = "absent"
    /\ Len(status.files) = NumExpected

\* C6: a report is returned only when no expected path met a permission or
\* I/O error: such a path is never recorded with a status.
C6_ErrorsSurfaced ==
    Returning => \A i \in 1..NumExpected : ~BlockedAt(platform_key, i)

\* C7: the existence test of an expected path that is not there (and meets
\* no error) raises nothing, records missing for it and moves to the next
\* path.
C7_AbsentIsMissing ==
    [][(/\ pc = "test"
        /\ NodeAt(platform_key, idx).type = "absent"
        /\ ~BlockedAt(platform_key, idx))
       => /\ pc' # "raised"
          /\ exc' = "none"
          /\ idx' = idx + 1
          /\ status'.files = Append(status.files, << expected_files[idx], "missing" >>)]_vars

\* inside an existing directory the check went on after a missing path
C7_Witness ==
    /\ pc = "test"
    /\ status.directory_exists
    /\ idx > 1
    /\ status.files[idx - 1][2] = "missing"
    /\ NodeAt(platform_key, idx - 1).type = "absent"

\* C8: two calls for the same platform give the caller the same result.
C8_Idempotent ==
    \A i, j \in 1..Len(results) :
        results[i].platform = results[j].platform => results[i] = results[j]

\* two reports of one platform, one that is not all missing
C8_Witness ==
    /\ Len(results) = 2
    /\ results[1].platform = results[2].platform
    /\ results[1].kind = "report"
    /\ results[2].kind = "report"
    /\ \E n \in 1..Len(results[1].report.files) : results[1].report.files[n][2] # "missing"

\* C9: no step of check_platform_structure or main changes the filesystem.
C9_ReadOnly == [][fs' = fs]_vars

\* main ran to its end on a filesystem that holds files
C9_Witness ==
    /\ caller = "done"
    /\ summary.existing_files > 0

\* C10: the listing of the missing files of a platform is absent when no
\* path is missing, names all missing paths and has no suffix for 1 to 5 of
\* them, and names the first 5 followed by "... and N more", N the number
\* missing less 5, for more than 5.
JustReported == caller = "main" /\ pc = "idle" /\ mi >= 1 /\ Len(all_statuses) = mi
LastSection ==
    LET start == CHOOSE n \in 1..Len(out) :
                    /\ out[n].kind = "platform"
                    /\ \A m \in (n + 1)..Len(out) : out[m].kind # "platform"
    IN  SubSeq(out, start, Len(out))
IsItem(line) == line.kind = "missing_item"
IsMore(line) == line.kind = "more"
IsHeader(line) == line.kind = "missing_header"
MissingOf(r) == SelectSeq(expected_files, LAMBDA p : DictGet(r.files, p) = "missing")
ItemPaths(sec) == [n \in 1..Len(SelectSeq(sec, IsItem)) |-> SelectSeq(sec, IsItem)[n].path]

C10_MissingListing ==
    JustReported =>
        LET miss == MissingOf(all_statuses[mi])
            m    == Len(miss)
            sec  == LastSection
        IN  /\ m = 0 => Len(sec) = 3
            /\ (1 <= m /\ m <= 5) =>
                  /\ Len(sec) = 4 + m
                  /\ IsHeader(sec[4])
                  /\ ItemPaths(sec) = miss
                  /\ SelectSeq(sec, IsMore) = << >>
            /\ m > 5 =>
                  /\ Len(sec) = 4 + 5 + 1
                  /\ IsHeader(sec[4])
                  /\ ItemPaths(sec) = SubSeq(miss, 1, 5)
                  /\ sec[Len(sec)] = [kind |-> "more", n |-> m - 5]

\* after a listing cut to 5 paths with "... and 6 more", a listing of
\* exactly 5 missing paths
C10_Witness ==
    /\ JustReported
    /\ Len(MissingOf(all_statuses[mi])) = 5
    /\ \E n \in 1..Len(out) : out[n] = [kind |-> "more", n |-> 6]

\* C11: with an empty registry (total_files = 0) the completion printed is
\* 0, and computing the completion never raises a division by zero.
C11_ZeroTotal ==
    /\ exc # "ZeroDivisionError"
    /\ (summary.printed /\ summary.total_files = 0) => summary.completion_tenths = 0
    /\ (caller = "done" /\ registry = << >>) =>
          /\ summary.printed
          /\ summary.total_files = 0
          /\ out[Len(out)] = [kind |-> "completion", tenths |-> 0]

\* main has ended on an empty registry
C11_Witness ==
    /\ caller = "done"
    /\ registry = << >>
    /\ summary.total_files = 0

\* C12: in the summary the total expected count is the number of platform
\* reports times the number of expected paths per platform, and each of the
\* three totals is the sum, over the reports, of the entries with that status.
C12_SummaryTotals ==
    summary.printed =>
        LET per(which) == SumSeq([n \in 1..Len(all_statuses) |->
                                     CountStatus(all_statuses[n].files, which)])
        IN  /\ summary.total_files = Len(all_statuses) * Len(expected_files)
            /\ summary.existing_files = per("exists")
            /\ summary.empty_files = per("empty")
            /\ summary.missing_files = per("missing")

\* a summary over two reports, with every status met and the last report
\* unlike the first
C12_Witness ==
    /\ summary.printed
    /\ Len(all_statuses) = 2
    /\ summary.existing_files > 0
    /\ summary.empty_files > 0
    /\ summary.missing_files > 0
    /\ all_statuses[1].files # all_statuses[2].files

\* C13: the completion printed is existing / total * 100 to one decimal,
\* where existing counts only the entries "exists" (non-empty files); a
\* single platform with a non-empty README.md and nothing else gives
\* existing 1, empty 0, missing 10, total 11 and the completion 9.1.
C13_Completion ==
    summary.printed =>
        LET E == SumSeq([n \in 1..Len(all_statuses) |->
                            CountStatus(all_statuses[n].files, "exists")])
            T == summary.total_files
            c == summary.completion_tenths
            d == c * T - 1000 * E
        IN  /\ T > 0 => (2 * d <= T /\ 2 * (0 - d) <= T)
            /\ ( /\ Len(all_statuses) = 1
                 /\ DictValues(all_statuses[1].files)
                      = [n \in 1..11 |-> IF n = 1 THEN "exists" ELSE "missing"] )
               => summary = [printed |-> TRUE, total_files |-> 11,
                             existing_files |-> 1, empty_files |-> 0,
                             missing_files |-> 10, completion_tenths |-> 91]

\* the summary of the single platform whose only file is a non-empty README.md
C13_Witness ==
    /\ summary.printed
    /\ Keys(registry) = << VariedKey >>
    /\ Lookup(fs, << VariedKey, "README.md" >>).type = "file"
    /\ Lookup(fs, << VariedKey, "README.md" >>).size > 0
    /\ summary.existing_files = 1
    /\ summary.missing_files = 10
    /\ summary.completion_tenths = 91

\* the eleven relative paths of the specification, in its order
ListedPaths ==
    << << "README.md" >>,
       << "templates", "basic.yml" >>, << "templates", "advanced.yml" >>,
       << "examples", "java-spring-boot-example.md" >>,
       << "examples", "python-fastapi-example.md" >>,
       << "examples", "nodejs-express-example.md" >>,
       << "examples", "go-example.md" >>,
       << "docs", "getting-started.md" >>, << "docs", "advanced-configuration.md" >>,
       << "scripts", "setup.sh" >>, << "scripts", "validate.sh" >> >>
ListedSet == {ListedPaths[n] : n \in 1..Len(ListedPaths)}

\* a step of the loop body looks up the idx-th listed path under the platform
LooksUpListedPath ==
    pc \in {"test", "stat"} =>
        /\ last_query' = << platform_key >> \o ListedPaths[idx]
        /\ last_query'[1] = platform_key
        /\ idx' \in {idx, idx + 1}

\* C14: the relative paths checked are exactly the eleven listed ones, the
\* same for every platform, and each lookup is made at
\* <root>/<platformId>/<relative path>.
C14_CheckedPaths ==
    /\ [](Returning =>
            /\ {status.files[n][1] : n \in 1..Len(status.files)} = ListedSet
            /\ Len(status.files) = 11)
    /\ [][LooksUpListedPath]_vars

\* a check of the unregistered identifier has come to its last lookup
C14_Witness ==
    /\ Returning
    /\ platform_key = Unregistered
    /\ last_query = << Unregistered, "scripts", "validate.sh" >>

\* the platform identifiers of a list of reports
PlatformsOf(reports) == [n \in 1..Len(reports) |-> reports[n].platform]
\* the identifiers in the platform headings printed so far
HeadingKeys ==
    LET heads == SelectSeq(out, LAMBDA line : line.kind = "platform")
    IN  [n \in 1..Len(heads) |-> heads[n].key]
Ascending(l) == \A n \in 1..(Len(l) - 1) : StrLess(l[n], l[n + 1])

\* C15: main reports the platforms in ascending order of identifier, each
\* registered platform exactly once, and the list it returns holds one report
\* per platform in that order.
C15_AscendingOrder ==
    /\ caller \in {"main", "done", "crashed"} =>
          /\ Ascending(PlatformsOf(all_statuses))
          /\ HeadingKeys = PlatformsOf(all_statuses)
    /\ caller = "done" =>
          /\ Len(all_statuses) = Len(registry)
          /\ {all_statuses[n].platform : n \in 1..Len(all_statuses)}
               = {registry[n].key : n \in 1..Len(registry)}
          /\ \A n \in 1..Len(registry) :
                Cardinality({m \in 1..Len(all_statuses) :
                                all_statuses[m].platform = registry[n].key}) = 1

\* main has ended on the full registry, whose own order is not ascending
C15_Witness ==
    /\ caller = "done"
    /\ Len(all_statuses) = 19
    /\ ~Ascending(Keys(registry))
    /\ all_statuses[1].platform = "appveyor"

\* C16: the entries of a report are in the order of the expected paths, and
\* the missing paths are listed in that order (the five listed are the first
\* five missing ones).
C16_ExpectedOrder ==
    /\ Returning => DictKeys(status.files) = ListedPaths
    /\ JustReported =>
          LET miss == MissingOf(all_statuses[mi])
              m    == IF Len(miss) < 5 THEN Len(miss) ELSE 5
          IN  /\ DictKeys(all_statuses[mi].files) = ListedPaths
              /\ ItemPaths(LastSection) = SubSeq(miss, 1, m)

\* a report with more than five missing paths, and paths with content
\* between them, has been printed
C16_Witness ==
    /\ JustReported
    /\ Len(MissingOf(all_statuses[mi])) > 5
    /\ StatusOf(all_statuses[mi], 1) = "missing"
    /\ StatusOf(all_statuses[mi], 2) = "exists"
    /\ \E i, j \in 1..11 :
          /\ i < j
          /\ StatusOf(all_statuses[mi], i) = "missing"
          /\ StatusOf(all_statuses[mi], j) # "missing"

\* the text main prints for a list of reports: the heading, one section per
\* report and, once main has ended, the summary block
RECURSIVE Sections(_)
Sections(reports) ==
    IF reports = << >> THEN << >>
    ELSE Sections(SubSeq(reports, 1, Len(reports) - 1))
         \o PlatformSection(reports[Len(reports)].platform, reports[Len(reports)])
SummaryBlock(reports) ==
    << Rule("="), Text("Summary"), Rule("="),
       [kind |-> "total", n |-> TotalFiles],
       [kind |-> "existing", n |-> SumStatus(reports, "exists")],
       [kind |-> "empty", n |-> SumStatus(reports, "empty")],
       [kind |-> "missing", n |-> SumStatus(reports, "missing")],
       [kind |-> "completion",
        tenths |-> CompletionTenths(SumStatus(reports, "exists"), TotalFiles).tenths] >>
Rendering(reports, ended) ==
    << Rule("="), Text("CI/CD Platform Content Status Report"), Rule("=") >>
    \o Sections(reports)
    \o (IF ended THEN SummaryBlock(reports) ELSE << >>)

\* a step keeps the reports collected before it and the registry; the report
\* it adds is the one check_platform_structure returned
KeepsReports ==
    /\ registry' = registry
    /\ Len(all_statuses') >= Len(all_statuses)
    /\ SubSeq(all_statuses', 1, Len(all_statuses)) = all_statuses
    /\ Len(all_statuses') > Len(all_statuses) =>
          all_statuses' = Append(all_statuses, status)

\* C17: printing changes nothing in the collected reports or the registry,
\* and the text is a function of the reports: rendering the stored reports
\* again gives the text that was printed.
C17_PrintingIsPure ==
    /\ [][KeepsReports]_vars
    /\ [](caller \in {"main", "done"} =>
            out = Rendering(all_statuses, caller = "done"))

\* main has ended after printing sections with and without a missing list
C17_Witness ==
    /\ caller = "done"
    /\ Len(out) > 3 * Len(all_statuses) + 11
    /\ \E n \in 1..Len(all_statuses) : CountStatus(all_statuses[n].files, "missing") > 5
    /\ \E n \in 1..Len(all_statuses) : CountStatus(all_statuses[n].files, "missing") = 0

\* C20: the registry is not changed at run time: its keys at the end of a
\* run are its keys at the start.
C20_RegistryUntouched ==
    /\ [][Keys(registry') = Keys(registry)]_vars
    /\ [](caller \in {"done", "crashed"} => Keys(registry) = Keys(PLATFORMS))

\* main has ended after looking up the name of every platform
C20_Witness ==
    /\ caller = "done"
    /\ mi = Len(PLATFORMS)
    /\ Len(registry) = 19

\* the filesystem cut down to what lies under the directory of platform k
Under(f, k) == [p \in {q \in DOMAIN f : q[1] = k} |-> f[p]]
\* what one lookup of the i-th listed path of k gives on filesystem f
EntryOn(f, k, i) ==
    LET path == << k >> \o ListedPaths[i]
        e    == PathExists(f, path)
    IN  IF e.raised # "none" THEN "raised"
        ELSE IF ~e.value THEN "missing"
        ELSE IF Stat(f, path).errno # "OK" THEN "raised"
        ELSE IF Stat(f, path).st_size > 0 THEN "exists" ELSE "empty"
\* a call for k on filesystem f raises
RaisesOn(f, k) ==
    \/ PathExists(f, << k >>).raised # "none"
    \/ \E i \in 1..11 : EntryOn(f, k, i) = "raised"
ReportOn(f, k) ==
    [platform |-> k, directory_exists |-> PathExists(f, << k >>).value,
     files |-> [i \in 1..11 |-> << ListedPaths[i], EntryOn(f, k, i) >>]]

\* C18: the report of a platform depends only on the files under its own
\* directory, and checks of different platforms share no data they write:
\* one worker per platform, interleaved in any way, gives the reports the
\* sequential run gives.
C18_WorkersAgree ==
    /\ \A w \in DOMAIN workers :
          /\ workers[w].query = << >> \/ workers[w].query[1] = w
          /\ workers[w].pc = "return" =>
                /\ ~RaisesOn(Under(fs, w), w)
                /\ workers[w].status = ReportOn(Under(fs, w), w)
          /\ workers[w].pc = "raised" => RaisesOn(Under(fs, w), w)
    /\ \A n \in 1..Len(all_statuses) :
          /\ workers[all_statuses[n].platform].pc = "return"
          /\ workers[all_statuses[n].platform].status = all_statuses[n]
    /\ caller = "crashed" =>
          /\ workers[platform_key].pc = "raised"
          /\ workers[platform_key].exc = exc
          /\ workers[platform_key].query = last_query
    /\ caller = "done" =>
          {all_statuses[n] : n \in 1..Len(all_statuses)}
             = {workers[w].status : w \in DOMAIN workers}

\* the workers and then the sequential run have ended on two populated
\* platform directories with unlike contents
C18_Witness ==
    /\ caller = "done"
    /\ DOMAIN workers = WorkerKeys
    /\ \A w \in WorkerKeys : workers[w].status.directory_exists
    /\ \E v, w \in WorkerKeys : workers[v].status.files # workers[w].status.files
    /\ \E w \in WorkerKeys :
          /\ CountStatus(workers[w].status.files, "missing") > 0
          /\ CountStatus(workers[w].status.files, "exists") > 0

\* no lookup main makes meets a permission or I/O error
ReadableFs ==
    \A n \in 1..Len(registry) :
        /\ ~Blocked(<< registry[n].key >>)
        /\ \A i \in 1..11 : ~Blocked(<< registry[n].key >> \o ListedPaths[i])

\* main has ended without an exception, after one section per registered
\* platform and then one summary block, which ends the text
Completed ==
    /\ caller = "done"
    /\ exc = "none"
    /\ Len(all_statuses) = Len(registry)
    /\ {HeadingKeys[n] : n \in 1..Len(HeadingKeys)}
          = {registry[n].key : n \in 1..Len(registry)}
    /\ Len(HeadingKeys) = Len(registry)
    /\ Cardinality({n \in 1..Len(out) : out[n] = Text("Summary")}) = 1
    /\ Cardinality({n \in 1..Len(out) : out[n].kind = "completion"}) = 1
    /\ \A n \in 1..Len(out) :
          out[n] = Text("Summary") =>
              /\ n = Len(out) - 6
              /\ \A m \in 1..Len(out) : out[m].kind = "platform" => m < n

\* C19: run on a filesystem it can read, main always terminates: it checks
\* every registered platform, prints their sections and then exactly one
\* summary block, and ends without an error.
C19_Terminates ==
    /\ ReadableFs => <>Completed
    /\ [](ReadableFs => caller # "crashed")

\* main has ended on the registry of the source, on a readable filesystem
\* where every expected file of every platform has content
C19_Witness ==
    /\ Completed
    /\ ReadableFs
    /\ registry = PLATFORMS
    /\ summary.existing_files = summary.total_files

\* C21: the registry main scans holds the 20 platforms the module docstring
\* speaks of, so the total expected file count it prints is 20 * 11 = 220.
C21_TwentyPlatforms ==
    (summary.printed /\ registry = PLATFORMS) =>
        /\ Len(registry) = DocstringPlatforms
        /\ summary.total_files = DocstringPlatforms * 11
        /\ summary.total_files = 220

\* C22: check_platform_structure does not raise when another process
\* deletes an expected file between the existence test and the size query:
\* with files created and deleted meanwhile, every expected path still ends
\* with one of the three statuses.
C22_NoRaiseUnderRace ==
    /\ pc # "raised"
    /\ caller # "crashed"
    /\ Returning =>
          /\ Len(status.files) = 11
          /\ \A n \in 1..Len(status.files) : status.files[n][2] \in Statuses

\* the counts lines of the platform sections printed so far
CountsLines == SelectSeq(out, LAMBDA line : line.kind = "counts")

\* C23: the totals of the summary are the sums of the per-platform counts
\* printed earlier in the run, also when the filesystem changes while main
\* runs: each platform is checked once and the summary is computed from the
\* stored reports.
C23_TotalsFromReports ==
    summary.printed =>
        /\ Len(CountsLines) = Len(registry)
        /\ summary.existing_files = SumSeq([n \in 1..Len(CountsLines) |-> CountsLines[n].exists])
        /\ summary.empty_files = SumSeq([n \in 1..Len(CountsLines) |-> CountsLines[n].empty])
        /\ summary.missing_files = SumSeq([n \in 1..Len(CountsLines) |-> CountsLines[n].missing])
        /\ summary.total_files
              = summary.existing_files + summary.empty_files + summary.missing_files

\* the summary has been printed and a file counted as present is gone, or a
\* file counted as missing is there
C23_Witness ==
    /\ summary.printed
    /\ \E n \in 1..Len(all_statuses) : \E i \in 1..11 :
          LET node == Lookup(fs, << all_statuses[n].platform >> \o ListedPaths[i])
              st   == all_statuses[n].files[i][2]
          IN  \/ st = "exists" /\ node.type = "absent"
              \/ st = "missing" /\ node.type = "file"

\* C24: in every report returned on a filesystem that nothing else changes,
\* directory_exists = False implies that every expected path is "missing";
\* a path that is "exists" or "empty" implies directory_exists = True.
C24_NoDirectoryNoFiles ==
    Returning =>
        /\ ~status.directory_exists =>
              \A n \in 1..Len(status.files) : status.files[n][2] = "missing"
        /\ (\E n \in 1..Len(status.files) : status.files[n][2] \in {"exists", "empty"})
              => status.directory_exists

\* a report with directory_exists = False for a platform directory that is
\* there but cannot be read
C24_Witness ==
    /\ Returning
    /\ ~status.directory_exists
    /\ Lookup(fs, << platform_key >>).type = "ioerror"
    /\ Len(status.files) = 11

\* C25: the completion percentage lies between 0 and 100, and it is 100
\* exactly when the registry is not empty and every expected file of every
\* platform is "exists" (none empty, none missing).
C25_CompletionRange ==
    summary.printed =>
        /\ 0 <= summary.completion_tenths
        /\ summary.completion_tenths <= 1000
        /\ summary.completion_tenths = 1000
              <=> /\ Len(registry) > 0
                  /\ \A n \in 1..Len(all_statuses) : \A i \in 1..Len(all_statuses[n].files) :
                        all_statuses[n].files[i][2] = "exists"

\* the summary of the whole registry with every expected file in place
C25_Witness ==
    /\ summary.printed
    /\ summary.completion_tenths = 1000
    /\ Len(all_statuses) = Len(PLATFORMS)

-----------------------------------------------------------------------------
(* The counters of ComprehensivePlatformGenerator                          *)

\* the generate_file calls made so far that returned
ReturnedAll == \A n \in 1..Len(calls) : calls[n].ended = "returned"

\* number of newline characters in a content, plus one
NewlinesPlusOne(content) ==
    Cardinality({n \in 1..Len(content) : content[n] = "\n"}) + 1

RECURSIVE LinesOfCalls(_)
LinesOfCalls(cs) ==
    IF cs = << >> THEN 0
    ELSE NewlinesPlusOne(Head(cs).content) + LinesOfCalls(Tail(cs))

CountersTally ==
    /\ ~mega.built => mega.files_created = 0 /\ mega.total_lines = 0
    /\ mega.built /\ calls = << >> => mega.files_created = 0 /\ mega.total_lines = 0
    /\ mega.built /\ ReturnedAll =>
          /\ mega.files_created = Len(calls)
          /\ mega.total_lines = LinesOfCalls(calls)

CountersGrow ==
    /\ mega'.files_created >= mega.files_created
    /\ mega'.total_lines >= mega.total_lines

\* C26: the counters of a generator start at 0 and never decrease, and
\* after generate_file calls that all returned, files_created is the number
\* of the calls and total_lines the sum, over the calls, of the number of
\* newline characters of the content plus one
C26_CountersTally == [] CountersTally /\ [][CountersGrow]_vars

\* two calls have returned, one of them with a content of three lines
C26_Witness ==
    /\ Len(calls) = 2
    /\ ReturnedAll
    /\ \E n \in 1..2 : calls[n].content = << "\n", "\n" >>
    /\ mega.files_created = 2
    /\ mega.total_lines >= 4

\* a generate_file call is made in this step
Called == Len(calls') = Len(calls) + 1
LastCall == calls[Len(calls)]

RaisedKeepsCounters ==
    Called /\ calls'[Len(calls')].raised # "none" => mega' = mega

\* C27 as stated: the counters never count a file whose generation raised
C27_NeverCountsRaised == [][RaisedKeepsCounters]_vars

StageFailureKeepsCounters ==
    Called /\ calls'[Len(calls')].ended \in {"mkdir", "open", "chmod"} =>
        /\ calls'[Len(calls')].raised # "none"
        /\ mega' = mega

\* C27, amended: a generate_file call that fails while creating the parent
\* directory, writing the file or changing its mode leaves files_created and
\* total_lines as they were
C27_StageFailureKeepsCounters == [][StageFailureKeepsCounters]_vars

\* the first call has written its script and failed in chmod: the file is
\* there with the new content, and no counter has moved
C27_Witness ==
    /\ Len(calls) = 1
    /\ LastCall.ended = "chmod"
    /\ LastCall.raised = "PermissionError"
    /\ At(disk, << LastCall.platform_key >> \o LastCall.filepath).type = "file"
    /\ At(disk, << LastCall.platform_key >> \o LastCall.filepath).content = LastCall.content
    /\ LastCall.content # LastCall.before[<< LastCall.platform_key >> \o LastCall.filepath].content
    /\ mega.files_created = 0
    /\ mega.total_lines = 0

-----------------------------------------------------------------------------
(* What generate_file leaves on the tree                                   *)

\* the filepaths whose name ends with '.sh'
ScriptPaths == {<< "scripts", "setup.sh" >>}

\* the path a call is to write, below base_dir
TargetOf(c) == << c.platform_key >> \o c.filepath

\* the directories above a path, below base_dir
Ancestors(path) == {SubSeq(path, 1, n) : n \in 1..(Len(path) - 1)}

\* the last call got past mkdir, open and chmod
LastCallWrote == calls # << >> /\ LastCall.ended \in {"returned", "print"}

\* C28: a generate_file call that gets through leaves, at
\* <base_dir>/<platform_key>/<filepath>, a file with the content given, below
\* directories created where they were missing; the file has mode 0o755 when
\* filepath ends with '.sh', and otherwise the mode it had, or the mode of a
\* new file; nothing else on the tree changes
C28_WritesTarget ==
    LastCallWrote =>
        LET target == TargetOf(LastCall)
            was    == At(LastCall.before, target)
            now    == At(disk, target)
        IN  /\ now.type = "file"
            /\ now.content = LastCall.content
            /\ \A a \in Ancestors(target) : At(disk, a).type = "dir"
            /\ now.mode = IF LastCall.filepath \in ScriptPaths THEN 493
                          ELSE IF was.type = "file" THEN was.mode
                          ELSE 420
            /\ \A q \in DOMAIN disk \cup DOMAIN LastCall.before :
                  q # target /\ At(LastCall.before, q).type # "absent" =>
                      At(disk, q) = At(LastCall.before, q)
            /\ \A q \in DOMAIN disk :
                  At(LastCall.before, q).type = "absent" => q \in Ancestors(target) \cup {target}

\* on the empty tree a first call has created a script below two new
\* directories, and a second call has replaced its content
C28_Witness ==
    /\ Len(calls) = 2
    /\ calls[1].before = << >>
    /\ calls[1].filepath = << "scripts", "setup.sh" >>
    /\ calls[1].ended = "returned"
    /\ TargetOf(calls[2]) = TargetOf(calls[1])
    /\ calls[2].content # calls[1].content
    /\ calls[2].ended = "returned"
    /\ At(disk, TargetOf(calls[2])).content = calls[2].content
    /\ At(disk, TargetOf(calls[2])).mode = 493
    /\ At(disk, << GenKey, "scripts" >>).type = "dir"

-----------------------------------------------------------------------------
(* What comprehensive_generator.py leaves on the tree                      *)

\* the directories generate_all_files is to create for a platform
PlatformDirs(k) ==
    {<< k >>, << k, "templates" >>, << k, "examples" >>, << k, "docs" >>,
     << k, "scripts" >>}

\* the files of a platform on a tree
PlatformFiles(d, k) == {q \in DOMAIN d : q[1] = k /\ d[q].type = "file"}

Listed == {platforms_to_generate[n] : n \in 1..Len(platforms_to_generate)}

\* C29: main lists 19 keys, each of them a key of PLATFORMS, and once the
\* script has run, on the empty tree or on one populated before, no
\* exception has ended it and every listed platform has its directory, its
\* templates, examples, docs and scripts directories and its README.md, the
\* one file the run has added for it
C29_GeneratesAllPlatforms ==
    /\ Len(platforms_to_generate) = 19
    /\ Listed \subseteq {EnterprisePlatforms[n] : n \in 1..Len(EnterprisePlatforms)}
    /\ enterprise.pc # "idle" /\ calls = << >>
          /\ enterprise.before \in {EmptyTree, PopulatedTree} =>
          /\ enterprise.exc = "none"
          /\ \A k \in Listed :
                /\ \A q \in PlatformDirs(k) : At(disk, q).type = "dir"
                /\ << k, "README.md" >> \in PlatformFiles(disk, k)
                /\ PlatformFiles(disk, k) \ PlatformFiles(enterprise.before, k)
                      \subseteq {<< k, "README.md" >>}

=============================================================================
